---- MODULE Spec2Model ----
(***************************************************************************)
(* WeatherArt.py: a Streamlit page that normalises a county/city name,     *)
(* fetches its forecast, and recommends a song or a film from local        *)
(* catalogues.  Every script run (page load or button press) is one        *)
(* action; st.session_state is the state that survives between runs.       *)
(***************************************************************************)
EXTENDS Integers, Sequences, FiniteSets, TLC

\* ---------------------------------------------------------------- bounds
\* Rows of the song catalogue (YT_weather_matched.xlsx) that have a URL and a description.
NVideos == 3
\* Poster files in the movie directory.
NMovies == 2

\* ---------------------------------------------------------------- values
\* Python's None.  Every Python string of the model is a sequence of characters, so
\* None is a sequence no string of the model equals.
None == <<"<None>">>

Range(s) == {s[i] : i \in DOMAIN s}
SetMin(S) == CHOOSE v \in S : \A w \in S : v <= w
SetMax(S) == CHOOSE v \in S : \A w \in S : v >= w
\* Python truthiness of a string-or-None value.
Truthy(v) == v # None /\ v # <<>>

\* Python strings are modelled as sequences of characters. Each Chinese character of
\* the source is written as one ASCII token (its reading), and its code point is:
\*   tai = U+53F0, TAI = U+81FA, bei = U+5317, shi = U+5E02, xin = U+65B0
\*   xian = U+7E23, tao = U+6843, yuan = U+5712, zhong = U+4E2D, nan = U+5357
\*   gao = U+9AD8, xiong = U+96C4, ji = U+57FA, long = U+9686, jiFowl = U+96DE
\*   longCage = U+7C60, zhu = U+7AF9, jia = U+5609, yi4 = U+7FA9, miao = U+82D7
\*   li = U+6817, zhang = U+5F70, hua4 = U+5316, tou = U+6295, yun = U+96F2
\*   lin = U+6797, ping = U+5C4F, dong = U+6771, liu = U+7409, qiu = U+7403
\*   yu = U+5DBC, xiao = U+5C0F, yi2 = U+5B9C, lan = U+862D, gui = U+9F9C
\*   shan = U+5C71, dao = U+5CF6, hua1 = U+82B1, lianLotus = U+84EE, lv = U+7DA0
\*   niao = U+9CE5, peng = U+6F8E, hu = U+6E56, jin = U+91D1, men = U+9580
\*   lian = U+9023, jiang = U+6C5F, ma = U+99AC, zu = U+7956

\* The fallback list of get_location_names: the 22 official county and city names.
OFFICIAL_LOCATION_NAMES ==
    << <<"TAI", "bei", "shi">>, <<"xin", "bei", "shi">>, <<"tao", "yuan", "shi">>,
       <<"TAI", "zhong", "shi">>, <<"TAI", "nan", "shi">>, <<"gao", "xiong", "shi">>,
       <<"ji", "long", "shi">>, <<"xin", "zhu", "shi">>, <<"jia", "yi4", "shi">>,
       <<"xin", "zhu", "xian">>, <<"miao", "li", "xian">>, <<"zhang", "hua4", "xian">>,
       <<"nan", "tou", "xian">>, <<"yun", "lin", "xian">>, <<"jia", "yi4", "xian">>,
       <<"ping", "dong", "xian">>, <<"yi2", "lan", "xian">>, <<"hua1", "lianLotus", "xian">>,
       <<"TAI", "dong", "xian">>, <<"peng", "hu", "xian">>, <<"jin", "men", "xian">>,
       <<"lian", "jiang", "xian">> >>

\* The correction table, as the sequence of its (key, value) items in source order.
MANUAL_CORRECTIONS ==
    << <<<<"tai", "bei", "shi">>, <<"TAI", "bei", "shi">>>>, <<<<"tai", "bei">>, <<"TAI", "bei", "shi">>>>,
       <<<<"bei", "shi">>, <<"TAI", "bei", "shi">>>>, <<<<"bei">>, <<"TAI", "bei", "shi">>>>,
       <<<<"xin", "bei">>, <<"xin", "bei", "shi">>>>, <<<<"TAI", "bei", "xian">>, <<"xin", "bei", "shi">>>>,
       <<<<"tao", "yuan">>, <<"tao", "yuan", "shi">>>>, <<<<"tao", "yuan", "xian">>, <<"tao", "yuan", "shi">>>>,
       <<<<"tao">>, <<"tao", "yuan", "shi">>>>, <<<<"yuan">>, <<"tao", "yuan", "shi">>>>,
       <<<<"tai", "zhong">>, <<"TAI", "zhong", "shi">>>>, <<<<"tai", "zhong", "shi">>, <<"TAI", "zhong", "shi">>>>,
       <<<<"tai", "zhong", "xian">>, <<"TAI", "zhong", "shi">>>>, <<<<"TAI", "zhong", "xian">>, <<"TAI", "zhong", "shi">>>>,
       <<<<"zhong", "xian">>, <<"TAI", "zhong", "shi">>>>, <<<<"zhong", "shi">>, <<"TAI", "zhong", "shi">>>>,
       <<<<"TAI", "zhong">>, <<"TAI", "zhong", "shi">>>>, <<<<"zhong">>, <<"TAI", "zhong", "shi">>>>,
       <<<<"tai", "nan">>, <<"TAI", "nan", "shi">>>>, <<<<"tai", "nan", "shi">>, <<"TAI", "nan", "shi">>>>,
       <<<<"TAI", "nan">>, <<"TAI", "nan", "shi">>>>, <<<<"tai", "nan", "xian">>, <<"TAI", "nan", "shi">>>>,
       <<<<"TAI", "nan", "xian">>, <<"TAI", "nan", "shi">>>>, <<<<"gao", "xiong">>, <<"gao", "xiong", "shi">>>>,
       <<<<"xiong", "shi">>, <<"gao", "xiong", "shi">>>>, <<<<"xiong">>, <<"gao", "xiong", "shi">>>>,
       <<<<"gao", "xiong", "xian">>, <<"gao", "xiong", "shi">>>>, <<<<"ji", "long">>, <<"ji", "long", "shi">>>>,
       <<<<"ji">>, <<"ji", "long", "shi">>>>, <<<<"long">>, <<"ji", "long", "shi">>>>,
       <<<<"jiFowl">>, <<"ji", "long", "shi">>>>, <<<<"longCage">>, <<"ji", "long", "shi">>>>,
       <<<<"jiFowl", "longCage">>, <<"ji", "long", "shi">>>>, <<<<"ji", "long", "xian">>, <<"ji", "long", "shi">>>>,
       <<<<"ji", "shi">>, <<"ji", "long", "shi">>>>, <<<<"long", "shi">>, <<"ji", "long", "shi">>>>,
       <<<<"jiFowl", "shi">>, <<"ji", "long", "shi">>>>, <<<<"longCage", "shi">>, <<"ji", "long", "shi">>>>,
       <<<<"jiFowl", "longCage", "shi">>, <<"ji", "long", "shi">>>>, <<<<"jiFowl", "longCage", "xian">>, <<"ji", "long", "shi">>>>,
       <<<<"jiFowl", "xian">>, <<"ji", "long", "shi">>>>, <<<<"longCage", "xian">>, <<"ji", "long", "shi">>>>,
       <<<<"xin", "zhu">>, <<"xin", "zhu", "shi">>>>, <<<<"zhu">>, <<"xin", "zhu", "shi">>>>,
       <<<<"zhu", "shi">>, <<"xin", "zhu", "shi">>>>, <<<<"zhu", "xian">>, <<"xin", "zhu", "xian">>>>,
       <<<<"jia", "yi4">>, <<"jia", "yi4", "shi">>>>, <<<<"jia">>, <<"jia", "yi4", "shi">>>>,
       <<<<"yi4">>, <<"jia", "yi4", "shi">>>>, <<<<"jia", "xian">>, <<"jia", "yi4", "xian">>>>,
       <<<<"yi4", "xian">>, <<"jia", "yi4", "xian">>>>, <<<<"miao", "li">>, <<"miao", "li", "xian">>>>,
       <<<<"miao">>, <<"miao", "li", "xian">>>>, <<<<"li">>, <<"miao", "li", "xian">>>>,
       <<<<"li", "xian">>, <<"miao", "li", "xian">>>>, <<<<"miao", "xian">>, <<"miao", "li", "xian">>>>,
       <<<<"miao", "li", "shi">>, <<"miao", "li", "xian">>>>, <<<<"zhang", "hua4">>, <<"zhang", "hua4", "xian">>>>,
       <<<<"zhang">>, <<"zhang", "hua4", "xian">>>>, <<<<"hua4">>, <<"zhang", "hua4", "xian">>>>,
       <<<<"zhang", "xian">>, <<"zhang", "hua4", "xian">>>>, <<<<"hua4", "xian">>, <<"zhang", "hua4", "xian">>>>,
       <<<<"zhang", "hua4", "shi">>, <<"zhang", "hua4", "xian">>>>, <<<<"nan", "tou">>, <<"nan", "tou", "xian">>>>,
       <<<<"tou">>, <<"nan", "tou", "xian">>>>, <<<<"tou", "xian">>, <<"nan", "tou", "xian">>>>,
       <<<<"nan", "tou", "shi">>, <<"nan", "tou", "xian">>>>, <<<<"yun", "lin">>, <<"yun", "lin", "xian">>>>,
       <<<<"yun">>, <<"yun", "lin", "xian">>>>, <<<<"lin">>, <<"yun", "lin", "xian">>>>,
       <<<<"yun", "xian">>, <<"yun", "lin", "xian">>>>, <<<<"lin", "xian">>, <<"yun", "lin", "xian">>>>,
       <<<<"yun", "lin", "shi">>, <<"yun", "lin", "xian">>>>, <<<<"ping", "dong">>, <<"ping", "dong", "xian">>>>,
       <<<<"ping">>, <<"ping", "dong", "xian">>>>, <<<<"ping", "xian">>, <<"ping", "dong", "xian">>>>,
       <<<<"ping", "dong", "shi">>, <<"ping", "dong", "xian">>>>, <<<<"liu", "qiu", "yu">>, <<"ping", "dong", "xian">>>>,
       <<<<"xiao", "liu", "qiu">>, <<"ping", "dong", "xian">>>>, <<<<"liu", "qiu">>, <<"ping", "dong", "xian">>>>,
       <<<<"yi2", "lan">>, <<"yi2", "lan", "xian">>>>, <<<<"yi2">>, <<"yi2", "lan", "xian">>>>,
       <<<<"lan">>, <<"yi2", "lan", "xian">>>>, <<<<"yi2", "xian">>, <<"yi2", "lan", "xian">>>>,
       <<<<"lan", "xian">>, <<"yi2", "lan", "xian">>>>, <<<<"yi2", "lan", "shi">>, <<"yi2", "lan", "xian">>>>,
       <<<<"gui", "shan", "dao">>, <<"yi2", "lan", "xian">>>>, <<<<"hua1", "lianLotus">>, <<"hua1", "lianLotus", "xian">>>>,
       <<<<"hua1">>, <<"hua1", "lianLotus", "xian">>>>, <<<<"lianLotus">>, <<"hua1", "lianLotus", "xian">>>>,
       <<<<"hua1", "xian">>, <<"hua1", "lianLotus", "xian">>>>, <<<<"lianLotus", "xian">>, <<"hua1", "lianLotus", "xian">>>>,
       <<<<"hua1", "lianLotus", "shi">>, <<"hua1", "lianLotus", "xian">>>>, <<<<"tai", "dong">>, <<"TAI", "dong", "xian">>>>,
       <<<<"tai", "dong", "xian">>, <<"TAI", "dong", "xian">>>>, <<<<"tai", "dong", "shi">>, <<"TAI", "dong", "shi">>>>,
       <<<<"lv", "dao">>, <<"TAI", "dong", "xian">>>>, <<<<"lv", "niao">>, <<"TAI", "dong", "xian">>>>,
       <<<<"lan", "yu">>, <<"TAI", "dong", "xian">>>>, <<<<"peng", "hu">>, <<"peng", "hu", "xian">>>>,
       <<<<"peng">>, <<"peng", "hu", "xian">>>>, <<<<"hu">>, <<"peng", "hu", "xian">>>>,
       <<<<"peng", "xian">>, <<"peng", "hu", "xian">>>>, <<<<"hu", "xian">>, <<"peng", "hu", "xian">>>>,
       <<<<"peng", "hu", "shi">>, <<"peng", "hu", "xian">>>>, <<<<"jin", "men">>, <<"jin", "men", "xian">>>>,
       <<<<"jin">>, <<"jin", "men", "xian">>>>, <<<<"men">>, <<"jin", "men", "xian">>>>,
       <<<<"jin", "xian">>, <<"jin", "men", "xian">>>>, <<<<"men", "xian">>, <<"jin", "men", "xian">>>>,
       <<<<"jin", "men", "shi">>, <<"jin", "men", "xian">>>>, <<<<"lian", "jiang">>, <<"lian", "jiang", "xian">>>>,
       <<<<"lian", "jiang", "shi">>, <<"lian", "jiang", "xian">>>>, <<<<"ma", "zu">>, <<"lian", "jiang", "xian">>>>,
       <<<<"ma", "xian">>, <<"lian", "jiang", "xian">>>>, <<<<"zu", "xian">>, <<"lian", "jiang", "xian">>>>,
       <<<<"lian">>, <<"lian", "jiang", "xian">>>>, <<<<"jiang">>, <<"lian", "jiang", "xian">>>>,
       <<<<"lian", "xian">>, <<"lian", "jiang", "xian">>>> >>

\* Characters of the weather descriptions:
\*   qing = U+6674, shiTime = U+6642, duo = U+591A, yun = U+96F2, yin = U+9670,
\*   yuRain = U+96E8
\* str.lower(): the Latin capitals of the model fold to their small letters, every
\* other character (all of the Chinese ones) is left as it is.
\* Op applied to v: a local name for a value that is used more than once.
With(v, Op(_)) == Op(v)

lower_char(c) ==
    CASE c = "A" -> "a" [] c = "B" -> "b" [] c = "Q" -> "q" [] c = "S" -> "s"
      [] c = "W" -> "w" [] c = "X" -> "x" [] c = "Z" -> "z"
      [] OTHER -> c

lower(s) == [i \in DOMAIN s |-> lower_char(s[i])]

\* ------------------------------------------- fuzzywuzzy (on difflib)
\* a[i .. i+k-1] = b[j .. j+k-1]
MatchAt(a, b, i, j, k) == \A t \in 0..(k - 1) : a[i + t] = b[j + t]

\* difflib.SequenceMatcher.find_longest_match: the longest common block of a[alo..ahi]
\* and b[blo..bhi]; of the longest, the one starting earliest in a, then earliest in b.
find_longest_match(a, b, alo, ahi, blo, bhi) ==
    With({m \in (alo..ahi) \X (blo..bhi) \X (1..(ahi - alo + 1)) :
             /\ m[1] + m[3] - 1 <= ahi
             /\ m[2] + m[3] - 1 <= bhi
             /\ MatchAt(a, b, m[1], m[2], m[3])},
         LAMBDA C :
             IF C = {} THEN <<alo, blo, 0>>
             ELSE CHOOSE m \in C : \A n \in C :
                      \/ m[3] > n[3]
                      \/ m[3] = n[3] /\ m[1] < n[1]
                      \/ m[3] = n[3] /\ m[1] = n[1] /\ m[2] <= n[2])

\* difflib.SequenceMatcher.get_matching_blocks, without the closing (la, lb, 0) block:
\* the longest block, then the same to its left and to its right.
RECURSIVE get_matching_blocks(_, _, _, _, _, _)
get_matching_blocks(a, b, alo, ahi, blo, bhi) ==
    With(find_longest_match(a, b, alo, ahi, blo, bhi),
         LAMBDA m :
             IF m[3] = 0 THEN {}
             ELSE {m} \cup get_matching_blocks(a, b, alo, m[1] - 1, blo, m[2] - 1)
                      \cup get_matching_blocks(a, b, m[1] + m[3], ahi, m[2] + m[3], bhi))

RECURSIVE SumSizes(_)
SumSizes(blocks) ==
    IF blocks = {} THEN 0
    ELSE LET m == CHOOSE n \in blocks : TRUE IN m[3] + SumSizes(blocks \ {m})

\* utils.intr(100 * SequenceMatcher(None, a, b).ratio()): ratio() is 2*M/T, and 1.0
\* when T = 0; int(round(x)) rounds a half to the even neighbour.
intr_ratio(a, b) ==
    With(SumSizes(get_matching_blocks(a, b, 1, Len(a), 1, Len(b))),
         LAMBDA M :
             LET T == Len(a) + Len(b)
                 q == (200 * M) \div T
                 r == (200 * M) % T
             IN  IF T = 0 THEN 100
                 ELSE IF 2 * r > T \/ (2 * r = T /\ q % 2 = 1) THEN q + 1 ELSE q)

\* fuzz.ratio, behind check_for_equivalence and check_empty_string.
fuzz_ratio(s1, s2) ==
    IF s1 = s2 THEN 100
    ELSE IF Len(s1) = 0 \/ Len(s2) = 0 THEN 0
    ELSE intr_ratio(s1, s2)

\* Python's s[lo:hi] on 1-based positions lo+1 .. hi.
Slice(s, lo, hi) == SubSeq(s, lo + 1, IF hi > Len(s) THEN Len(s) ELSE hi)

\* fuzz.partial_ratio: the best ratio of the shorter string against the windows of
\* the longer one that the matching blocks (and the closing block) point at.
fuzz_partial_ratio(s1, s2) ==
    IF s1 = s2 THEN 100
    ELSE IF Len(s1) = 0 \/ Len(s2) = 0 THEN 0
    ELSE LET shorter == IF Len(s1) <= Len(s2) THEN s1 ELSE s2
             longer == IF Len(s1) <= Len(s2) THEN s2 ELSE s1
         IN  SetMax({intr_ratio(shorter,
                                Slice(longer,
                                      IF m[2] - m[1] > 0 THEN m[2] - m[1] ELSE 0,
                                      (IF m[2] - m[1] > 0 THEN m[2] - m[1] ELSE 0) + Len(shorter))) :
                        m \in get_matching_blocks(shorter, longer, 1, Len(shorter), 1, Len(longer))
                                  \cup {<<Len(shorter) + 1, Len(longer) + 1, 0>>}})

\* ------------------------------------------------- extract_youtube_id
\* A URL is a sequence of characters in which each fixed piece the function looks
\* for ("v=", "youtu.be/", "embed/", "live/", "googleusercontent.com/youtube.com/",
\* "youtube.com/watch?", "https://", "www.", "?", "&", "t=") is one element.
DIGITS == {"0", "1", "2", "3", "4", "5", "6", "7", "8", "9"}

LETTERS ==
    {"a", "b", "c", "d", "e", "f", "g", "h", "i", "j", "k", "l", "m", "n", "o", "p", "q",
     "r", "s", "t", "u", "v", "w", "x", "y", "z", "A", "B", "C", "D", "E", "F", "G", "H",
     "I", "J", "K", "L", "M", "N", "O", "P", "Q", "R", "S", "T", "U", "V", "W", "X", "Y",
     "Z"}

\* The class [a-zA-Z0-9_-].
ID_CHARS == LETTERS \cup DIGITS \cup {"_", "-"}

\* The {11} of the first pattern.
ID_LEN == 11

ID_PREFIXES == {"v=", "youtu.be/", "embed/", "live/"}

GUC == "googleusercontent.com/youtube.com/"

\* The length of the longest run of characters of S in url from position p on.
RECURSIVE RunLen(_, _, _)
RunLen(url, p, S) ==
    IF p <= Len(url) /\ url[p] \in S THEN 1 + RunLen(url, p + 1, S) ELSE 0

\* re.search(r'(?:v=|youtu\.be/|embed/|live/)([a-zA-Z0-9_-]{11})', url): group 1 of the
\* leftmost match, or None.
search_id(url) ==
    With({p \in 1..Len(url) : url[p] \in ID_PREFIXES /\ RunLen(url, p + 1, ID_CHARS) >= ID_LEN},
         LAMBDA P : IF P = {} THEN None ELSE SubSeq(url, SetMin(P) + 1, SetMin(P) + ID_LEN))

\* re.search(r'googleusercontent\.com/youtube\.com/\d+([a-zA-Z0-9_-]+)', url): \d+ is
\* greedy and takes every leading digit, giving one back only when nothing else is
\* left for the group.
search_usercontent(url) ==
    With({p \in 1..Len(url) :
             /\ url[p] = GUC
             /\ RunLen(url, p + 1, DIGITS) >= 1
             /\ RunLen(url, p + 1, ID_CHARS) >= 2},
         LAMBDA P :
             IF P = {} THEN None
             ELSE With(<<SetMin(P), RunLen(url, SetMin(P) + 1, DIGITS),
                         RunLen(url, SetMin(P) + 1, ID_CHARS)>>,
                       LAMBDA m :
                           IF m[2] < m[3]
                           THEN SubSeq(url, m[1] + 1 + m[2], m[1] + m[3])
                           ELSE SubSeq(url, m[1] + m[3], m[1] + m[3])))

\* The positions where sep occurs in s.
Occurrences(s, sep) ==
    {p \in 1..(Len(s) - Len(sep) + 1) : SubSeq(s, p, p + Len(sep) - 1) = sep}

\* sep in s
Contains(s, sep) == Occurrences(s, sep) # {}

\* s.split(sep)[0]
split_0(s, sep) ==
    With(Occurrences(s, sep), LAMBDA O : IF O # {} THEN SubSeq(s, 1, SetMin(O) - 1) ELSE s)

\* s.split(sep)[1], for s that holds sep
split_1(s, sep) ==
    With(Occurrences(s, sep),
         LAMBDA O :
             With({q \in O : q >= SetMin(O) + Len(sep)},
                  LAMBDA after :
                      SubSeq(s, SetMin(O) + Len(sep),
                             IF after = {} THEN Len(s) ELSE SetMin(after) - 1)))

extract_youtube_id(url) ==
    With(<<search_id(url), search_usercontent(url)>>, LAMBDA match :
    IF match[1] # None THEN match[1]
    ELSE IF match[2] # None THEN match[2]
    ELSE IF Contains(url, <<"youtube.com/watch?", "v=">>)
         THEN split_0(split_1(url, <<"v=">>), <<"&">>)
    ELSE IF Contains(url, <<"youtu.be/">>)
         THEN split_0(split_1(url, <<"youtu.be/">>), <<"?">>)
    ELSE IF Contains(url, <<GUC, "1">>)
         THEN split_0(split_1(url, <<GUC, "1">>), <<"?">>)
    ELSE None)

\* ------------------------------------------------------------- images
IMAGE_EXTENSIONS == <<"png", "gif", "jpg", "jpeg">>

WEATHER_IMAGES_DIR == "images"

\* os.path.join(base_dir, f"{code}.{ext}")
ImagePath(base_dir, name, ext) == <<base_dir, name, ext>>

\* The loops of lines 107-116 keeping the last extension that exists, not the first.
FirstExt_last(fs, base_dir, name) ==
    IF \E i \in DOMAIN IMAGE_EXTENSIONS : ImagePath(base_dir, name, IMAGE_EXTENSIONS[i]) \in fs
    THEN SetMax({i \in DOMAIN IMAGE_EXTENSIONS :
                    ImagePath(base_dir, name, IMAGE_EXTENSIONS[i]) \in fs})
    ELSE 0

\* The first extension, in the order of IMAGE_EXTENSIONS, under which name exists in
\* the file system fs (the set of existing paths); 0 when there is none.
FirstExt(fs, base_dir, name) ==
    LET E == {i \in DOMAIN IMAGE_EXTENSIONS : ImagePath(base_dir, name, IMAGE_EXTENSIONS[i]) \in fs}
    IN  IF E = {} THEN 0 ELSE SetMin(E)

get_image_path_or_default(fs, base_dir, code) ==
    With(<<FirstExt(fs, base_dir, code), FirstExt(fs, base_dir, "default")>>, LAMBDA e :
    IF e[1] # 0 THEN ImagePath(base_dir, code, IMAGE_EXTENSIONS[e[1]])
    ELSE IF e[2] # 0 THEN ImagePath(base_dir, "default", IMAGE_EXTENSIONS[e[2]])
    ELSE None)

\* load_local_image_as_base64 returning None for every path.
load_local_image_as_base64_none(fs, unreadable, image_path) == None

\* load_local_image_as_base64: the <img> tag of the file, None when the path is None
\* or does not exist, and None (after a warning) when reading it raises; unreadable
\* is the set of existing paths whose open() or read() fails.
load_local_image_as_base64(fs, unreadable, image_path) ==
    IF image_path = None \/ image_path \notin fs THEN None
    ELSE IF image_path \in unreadable THEN None
    ELSE <<"<img>", IF image_path[3] = "jpg" THEN "image/jpeg" ELSE "image/" \o image_path[3],
           image_path[2]>>

\* ------------------------------------------------------- local data
\* A result that may be an exception instead: raised is the exception's class, or
\* "" when the call returned value.
Returned(v) == [raised |-> "", value |-> v]
Raised(e) == [raised |-> e, value |-> None]

\* The 11-character identifiers of the catalogue's videos.
VIDEO_IDS ==
    << <<"d", "Q", "w", "4", "w", "9", "W", "g", "X", "c", "Q">>,
       <<"9", "b", "Z", "k", "p", "7", "q", "1", "9", "f", "0">>,
       <<"k", "J", "Q", "P", "7", "k", "i", "w", "5", "F", "k">>,
       <<"_", "O", "P", "f", "-", "T", "v", "z", "X", "3", "E">> >>

\* The URL of video id in each shape extract_youtube_id names.
UrlOf(shape, id) ==
    CASE shape = "watch" -> <<"https://", "www.", "youtube.com/watch?", "v=">> \o id
      [] shape = "watch&" -> <<"https://", "www.", "youtube.com/watch?", "v=">> \o id \o <<"&", "t=", "4", "2">>
      [] shape = "youtu.be" -> <<"https://", "youtu.be/">> \o id
      [] shape = "youtu.be?" -> <<"https://", "youtu.be/">> \o id \o <<"?", "t=", "4", "2">>
      [] shape = "embed" -> <<"https://", "www.", "youtube.com/", "embed/">> \o id
      [] shape = "live" -> <<"https://", "www.", "youtube.com/", "live/">> \o id
      [] shape = "usercontent" -> <<"https://", GUC, "1">> \o id
      [] OTHER -> id

URL_SHAPES == <<"watch", "youtu.be?", "usercontent", "embed", "live", "watch&", "youtu.be">>

\* The matched_weather_descriptions column: qing-shi-duo-yun, duo-yun-shi-qing,
\* yin-shi-duo-yun, duo-yun-shi-yin.
VIDEO_DESCS ==
    << <<"qing", "shiTime", "duo", "yun">>,
       <<"duo", "yun", "shiTime", "qing">>,
       <<"yin", "shiTime", "duo", "yun">>,
       <<"duo", "yun", "shiTime", "yin">> >>

Pick(seq, i) == seq[(i % Len(seq)) + 1]

\* The rows of YT_weather_matched.xlsx, by row label 0 .. NVideos: row 2 has an empty
\* URL cell, every other row a URL and a description.
ExcelRow(r) ==
    [url |-> IF r = 2 THEN <<>> ELSE UrlOf(Pick(URL_SHAPES, r), Pick(VIDEO_IDS, r)),
     desc |-> Pick(VIDEO_DESCS, r),
     title |-> <<"song", ToString(r)>>]

RECURSIVE RowsFrom(_)
RowsFrom(r) ==
    IF r > NVideos THEN <<>>
    ELSE (IF ExcelRow(r).url # <<>> /\ ExcelRow(r).desc # <<>>
          THEN <<[index |-> r, url |-> ExcelRow(r).url, desc |-> ExcelRow(r).desc,
                  title |-> ExcelRow(r).title]>>
          ELSE <<>>) \o RowsFrom(r + 1)

\* initialize_videos: the rows with a URL and a description, each with its row label as
\* index; the empty list (after st.error) when the file is missing or unreadable.
initialize_videos(excel) == IF excel = "ok" THEN RowsFrom(0) ELSE <<>>

\* os.listdir(MOVIE_POSTER_LOCAL_DIR): NMovies posters and one file that is no image.
MovieFiles ==
    [i \in 1..(NMovies + 1) |->
        IF i = NMovies + 1 THEN <<"notes", "txt">>
        ELSE <<"film" \o ToString(i), Pick(IMAGE_EXTENSIONS, i)>>]

RECURSIVE PostersFrom(_, _)
PostersFrom(files, i) ==
    IF i > Len(files) THEN <<>>
    ELSE (IF files[i][2] \in Range(IMAGE_EXTENSIONS)
          THEN <<[title |-> files[i][1], poster_url |-> <<"movie", files[i][1], files[i][2]>>]>>
          ELSE <<>>) \o PostersFrom(files, i + 1)

\* get_movie_poster_urls: a title and a path per image file of the directory; the empty
\* list (after st.warning) when the directory is missing or holds no image.
get_movie_poster_urls(movie_dir) ==
    IF movie_dir = "missing" THEN <<>>
    ELSE IF movie_dir = "empty" THEN PostersFrom(<<<<"notes", "txt">>>>, 1)
    ELSE PostersFrom(MovieFiles, 1)

\* weather_codes.csv as the (description, code) items of the dict, in row order.
WEATHER_CODES ==
    << <<<<"qing">>, "01">>,
       <<<<"duo", "yun">>, "02">>,
       <<<<"yin", "shiTime", "duo", "yun">>, "03">> >>

\* load_weather_codes: the table, or {} (after st.error) when the file is missing.
load_weather_codes(csv) == IF csv = "ok" THEN WEATHER_CODES ELSE <<>>

\* get_location_names: the API's county list; the fallback list when the request fails
\* (after st.error) or the payload has no records; the f-string that builds the URL
\* reads API_KEY outside the try, and loc['locationName'] is read inside a try that
\* catches only RequestException.
get_location_names(api_key, response) ==
    IF ~api_key THEN Raised("NameError")
    ELSE IF response = "malformed" THEN Raised("KeyError")
    ELSE Returned(OFFICIAL_LOCATION_NAMES)

\* ---------------------------------------------------- get_weather_data
\* A time text of the payload is [valid, t]: whether it has the format
\* '%Y-%m-%d %H:%M:%S', and the hour it names, counted from midnight of day 0.  A
\* period is [startTime, endTime, parameter], parameter being the parameterName text,
\* or None when the payload lacks the key.
Time(t) == [valid |-> TRUE, t |-> t]
BadTime == [valid |-> FALSE, t |-> 0]
Period(s, e, p) == [startTime |-> s, endTime |-> e, parameter |-> p]
Abs(n) == IF n < 0 THEN -n ELSE n

\* next((elem for elem in location_data['weatherElement'] if elem['elementName'] == name), None),
\* as the element's 'time' list inside a one-element sequence, or <<>> for None.
ElementTimes(location_data, name) ==
    LET I == {i \in DOMAIN location_data.weatherElement :
                 location_data.weatherElement[i].elementName = name}
    IN  IF I = {} THEN <<>> ELSE <<location_data.weatherElement[SetMin(I)].time>>

\* The loop over an element's periods: the first period with start <= start_dt < end.
FirstCovering(times, start_dt) ==
    LET M == {i \in DOMAIN times :
                 /\ times[i].startTime.valid /\ times[i].endTime.valid
                 /\ times[i].startTime.t <= start_dt /\ start_dt < times[i].endTime.t}
    IN  IF M = {} THEN 0 ELSE SetMin(M)

\* strptime raises ValueError in that loop: a malformed time is parsed before the loop
\* breaks.
LoopRaises(times, start_dt) ==
    With(FirstCovering(times, start_dt), LAMBDA m :
        \E i \in DOMAIN times :
            /\ ~(times[i].startTime.valid /\ times[i].endTime.valid)
            /\ (m = 0 \/ i < m))

\* MinT and MaxT (lines 194-217): the covering period's value, else the first period's,
\* else "N/A"; None stands for the KeyError of a missing parameter.
ElementValue(elem, start_dt) ==
    IF elem = <<>> THEN <<"N/A">>
    ELSE With(IF FirstCovering(elem[1], start_dt) # 0
              THEN elem[1][FirstCovering(elem[1], start_dt)].parameter ELSE <<"N/A">>,
              LAMBDA found :
                  IF found = <<"N/A">> /\ elem[1] # <<>> THEN elem[1][1].parameter ELSE found)

ElementRaises(elem, start_dt) ==
    /\ elem # <<>>
    /\ (LoopRaises(elem[1], start_dt) \/ ElementValue(elem, start_dt) = None)

time_desc(hour) ==
    IF 0 <= hour /\ hour < 6 THEN "midnight to morning"
    ELSE IF 6 <= hour /\ hour < 12 THEN "morning to noon"
    ELSE IF 12 <= hour /\ hour < 18 THEN "noon to evening"
    ELSE "evening to midnight"

WeatherError(city_name, why) ==
    [status |-> "error", description |-> None,
     display_text |-> <<"Cannot get the weather of ">> \o city_name \o <<why>>,
     min_temp |-> None, max_temp |-> None, pop |-> None]

\* The forecast taken as the first validly timed period, whatever the time is.
NearestForecast_first(valid_time_elements, now) == valid_time_elements[1]

\* The forecast of lines 166-167: the first of the validly timed Wx periods whose start
\* is nearest to now.
NearestForecast(valid_time_elements, now) ==
    LET d(i) == Abs(valid_time_elements[i].startTime.t - now)
        I == {i \in DOMAIN valid_time_elements :
                 \A j \in DOMAIN valid_time_elements : d(i) <= d(j)}
    IN  valid_time_elements[SetMin(I)]

\* Lines 143-232, for a payload with a location.
WeatherOfLocation(city_name, location_data, now) ==
    With(ElementTimes(location_data, "Wx"), LAMBDA wx :
    With(IF wx = <<>> THEN <<>> ELSE SelectSeq(wx[1], LAMBDA item : item.startTime.valid),
         LAMBDA valid_time_elements :
    With(IF valid_time_elements = <<>> THEN Period(BadTime, BadTime, None)
         ELSE NearestForecast(valid_time_elements, now), LAMBDA forecast :
    With(ElementTimes(location_data, "PoP"), LAMBDA pop_element :
    With(ElementTimes(location_data, "MinT"), LAMBDA min_temp_element :
    With(ElementTimes(location_data, "MaxT"), LAMBDA max_temp_element :
    With(IF pop_element = <<>> THEN 0 ELSE FirstCovering(pop_element[1], forecast.startTime.t),
         LAMBDA covering :
    With(ElementValue(min_temp_element, forecast.startTime.t), LAMBDA min_temp :
    With(ElementValue(max_temp_element, forecast.startTime.t), LAMBDA max_temp :
    LET start_dt == forecast.startTime.t
        pop == IF pop_element = <<>> THEN <<"N/A">>
               ELSE IF covering # 0 THEN pop_element[1][covering].parameter \o <<"%">>
               ELSE IF pop_element[1] # <<>> THEN pop_element[1][1].parameter \o <<"%">>
               ELSE <<"N/A">>
        pop_raises ==
            /\ pop_element # <<>>
            /\ \/ LoopRaises(pop_element[1], start_dt)
               \/ covering # 0 /\ pop_element[1][covering].parameter = None
               \/ /\ covering = 0
                  /\ pop_element[1] # <<>>
                  /\ pop_element[1][1].parameter = None
    IN  IF wx = <<>> THEN WeatherError(city_name, ": the Wx element is missing.")
        ELSE IF valid_time_elements = <<>>
             THEN WeatherError(city_name, ": the forecast times are invalid.")
        ELSE IF \/ forecast.parameter = None
                \/ pop_raises
                \/ ElementRaises(min_temp_element, start_dt)
                \/ ElementRaises(max_temp_element, start_dt)
             THEN WeatherError(city_name, ": error while processing the data")
        ELSE [status |-> "success",
              description |-> forecast.parameter,
              display_text |->
                  city_name \o <<" ", ToString(start_dt \div 24), time_desc(start_dt % 24), " is: **">>
                  \o forecast.parameter \o <<"**, between **">> \o min_temp \o <<"C** and **">>
                  \o max_temp \o <<"C**, chance of rain **">> \o pop \o <<"**">>,
              min_temp |-> min_temp, max_temp |-> max_temp, pop |-> pop])))))))))

\* get_weather_data(city_name): response is the outcome of the GET, [kind, location],
\* kind "RequestException" for a failed request and "json" for a decoded body with
\* data['records']['location'] = location (<<>> when absent or empty).  The f-string
\* that builds the URL reads API_KEY outside the try.
get_weather_data(api_key, city_name, response, now) ==
    IF ~api_key THEN Raised("NameError")
    ELSE IF response.kind = "RequestException"
         THEN Returned(WeatherError(city_name, ": network or API error."))
    ELSE IF response.location = <<>>
         THEN Returned(WeatherError(city_name, ": malformed data or no forecast for the county."))
    ELSE Returned(WeatherOfLocation(city_name, response.location[1], now))

\* --------------------------------------------------- st.session_state
\* The state main() sets up on the first run of a session (lines 543-551).
InitialSessionState ==
    [result_text |-> <<>>,
     recommended_youtube_id |-> None,
     recommended_image_url |-> None,
     recommended_music_original_indices |-> {},
     recommended_movie_indices |-> {},
     recommended_weather_image_html |-> None,
     weather_image_caption_desc |-> None]

\* reset_recommendation_states with the two pools cleared as well.
reset_recommendation_states_all(s) == InitialSessionState

reset_recommendation_states(s) ==
    [s EXCEPT !.result_text = <<>>,
              !.recommended_youtube_id = None,
              !.recommended_image_url = None,
              !.recommended_weather_image_html = None,
              !.weather_image_caption_desc = None]

\* What a recommendation function did, for the properties: the functions called, the
\* description matched against, the list random.choice drew from and the index it
\* drew (as sets of indices), the indices available for the draw, whether the pool
\* was reset, and the text returned.
NoDraw(fn) ==
    [calls |-> <<fn>>, weather_desc |-> None, path |-> "none", candidates |-> {},
     picked |-> {}, available |-> {}, reset |-> FALSE, text |-> None]

\* A recommendation function's result: the session state after it and what it returns.
MusicResult(s, text, youtube_id, obs) ==
    [s |-> s, text |-> text, youtube_id |-> youtube_id, obs |-> [obs EXCEPT !.text = text]]

\* get_available_music_indices without the set difference of line 320: every index
\* is available.
get_available_music_indices_all(s, all_videos) ==
    [s |-> s, available |-> {all_videos[i].index : i \in DOMAIN all_videos}, reset |-> FALSE]

\* get_available_music_indices resetting the pool when one index is left.
get_available_music_indices_early(s, all_videos) ==
    LET all_original_indices == {all_videos[i].index : i \in DOMAIN all_videos}
        available_original_indices ==
            all_original_indices \ s.recommended_music_original_indices
    IN  IF Cardinality(available_original_indices) <= 1 /\ Cardinality(all_original_indices) > 0
        THEN [s |-> [s EXCEPT !.recommended_music_original_indices = {}],
              available |-> all_original_indices, reset |-> TRUE]
        ELSE [s |-> s, available |-> available_original_indices, reset |-> FALSE]

\* get_available_music_indices: [s, available, reset], the state after the call, the
\* list returned (as a set) and whether the reset was done (and st.info shown).
get_available_music_indices(s, all_videos) ==
    LET all_original_indices == {all_videos[i].index : i \in DOMAIN all_videos}
        available_original_indices ==
            all_original_indices \ s.recommended_music_original_indices
    IN  IF available_original_indices = {} /\ Cardinality(all_original_indices) > 0
        THEN [s |-> [s EXCEPT !.recommended_music_original_indices = {}],
              available |-> all_original_indices, reset |-> TRUE]
        ELSE [s |-> s, available |-> available_original_indices, reset |-> FALSE]

\* random_music_recommendation: one result per video random.choice can return.
random_music_recommendation(s, all_videos) ==
    With(get_available_music_indices(s, all_videos), LAMBDA g :
    With(SelectSeq(all_videos, LAMBDA v : v.index \in g.available),
         LAMBDA available_videos_for_random :
    LET obs(v) == [calls |-> <<"random_music_recommendation">>, weather_desc |-> None,
                   path |-> "random",
                   candidates |-> {w.index : w \in Range(available_videos_for_random)},
                   picked |-> {v.index}, available |-> g.available, reset |-> g.reset,
                   text |-> None]
    IN  IF all_videos = <<>>
        THEN {MusicResult(s, <<"The music list is empty, no random music.">>, None,
                          NoDraw("random_music_recommendation"))}
        ELSE IF available_videos_for_random = <<>>
        THEN {MusicResult(g.s, <<"No music is left to recommend at random.">>, None,
                          [NoDraw("random_music_recommendation") EXCEPT !.reset = g.reset])}
        ELSE {With(extract_youtube_id(v.url), LAMBDA youtube_id :
                  MusicResult(
                      [g.s EXCEPT !.recommended_music_original_indices = @ \cup {v.index}],
                      IF Truthy(youtube_id)
                      THEN <<"A random song for you:">>
                      ELSE <<"Cannot extract the video ID from the link. Please click again.">>,
                      IF Truthy(youtube_id) THEN youtube_id ELSE None,
                      obs(v))) : v \in Range(available_videos_for_random)}))

\* The threshold of line 351.
MIN_SCORE == 30

\* The score of line 350.
VideoScore(weather_desc, video) == fuzz_partial_ratio(lower(weather_desc), lower(video.desc))

\* Line 358 without its filter: every video that passed the threshold.
top_score_matches_any(matched_available_videos_with_score, best_score_overall) ==
    matched_available_videos_with_score

\* Line 358: the (video, score) pairs whose score is the best one.
top_score_matches(matched_available_videos_with_score, best_score_overall) ==
    SelectSeq(matched_available_videos_with_score, LAMBDA pair : pair[2] = best_score_overall)

\* find_and_recommend_music drawing at random, whatever the scores.
find_and_recommend_music_random(s, weather_desc, all_videos) ==
    {[r EXCEPT !.obs.calls = <<"find_and_recommend_music">> \o @,
               !.obs.weather_desc = weather_desc] : r \in random_music_recommendation(s, all_videos)}

\* find_and_recommend_music: one result per video random.choice can return.
find_and_recommend_music(s, weather_desc, all_videos) ==
    With(get_available_music_indices(s, all_videos), LAMBDA g1 :
    With(IF SelectSeq(all_videos, LAMBDA v : v.index \in g1.available) = <<>>
         THEN get_available_music_indices(g1.s, all_videos) ELSE g1, LAMBDA g :
    With(SelectSeq(all_videos, LAMBDA v : v.index \in g.available), LAMBDA available_videos :
    With(SelectSeq([i \in DOMAIN available_videos |->
                       <<available_videos[i], VideoScore(weather_desc, available_videos[i])>>],
                   LAMBDA pair : pair[2] >= MIN_SCORE),
         LAMBDA matched_available_videos_with_score :
    With(SetMax({-1} \cup {pair[2] : pair \in Range(matched_available_videos_with_score)}),
         LAMBDA best_score_overall :
    With(top_score_matches(matched_available_videos_with_score, best_score_overall),
         LAMBDA top :
    LET obs(v) == [calls |-> <<"find_and_recommend_music">>, weather_desc |-> weather_desc,
                   path |-> "match",
                   candidates |-> {pair[1].index : pair \in Range(top)},
                   picked |-> {v.index}, available |-> g.available,
                   reset |-> g1.reset \/ g.reset, text |-> None]
        fallback == random_music_recommendation(g.s, all_videos)
    IN  IF all_videos = <<>>
        THEN {MusicResult(s, <<"The music list is empty, no music to recommend.">>, None,
                          NoDraw("find_and_recommend_music"))}
        ELSE IF available_videos = <<>>
        THEN {MusicResult(g.s, <<"No music is left to recommend at random.">>, None,
                          [NoDraw("find_and_recommend_music") EXCEPT !.reset = g1.reset \/ g.reset])}
        ELSE IF matched_available_videos_with_score # <<>>
        THEN {With(extract_youtube_id(v.url), LAMBDA youtube_id :
                  MusicResult(
                      [g.s EXCEPT !.recommended_music_original_indices = @ \cup {v.index}],
                      IF Truthy(youtube_id)
                      THEN <<"Listen to this one in such weather!">>
                      ELSE <<"Listen to this one in such weather!", "\n",
                             "(Sorry, cannot extract the video ID from the link.)">>,
                      IF Truthy(youtube_id) THEN youtube_id ELSE None,
                      obs(v))) : v \in {pair[1] : pair \in Range(top)}}
        ELSE {[r EXCEPT !.obs.calls = <<"find_and_recommend_music">> \o @,
                        !.obs.weather_desc = weather_desc,
                        !.obs.reset = @ \/ g1.reset \/ g.reset] : r \in fallback}))))))

\* random_movie_recommendation: one result per index random.choice can return; the
\* returned triple is (title, poster_url, remaining_count).
random_movie_recommendation(s, all_movies) ==
    LET all_list_indices == 0..(Len(all_movies) - 1)
        unseen == all_list_indices \ s.recommended_movie_indices
        reset == unseen = {}
        available_indices == IF reset THEN all_list_indices ELSE unseen
        s1 == IF reset THEN [s EXCEPT !.recommended_movie_indices = {}] ELSE s
    IN  IF all_movies = <<>>
        THEN {[s |-> s, title |-> <<"The movie list is empty, no random movie.">>,
               poster_url |-> None, remaining_count |-> 0,
               obs |-> [NoDraw("random_movie_recommendation") EXCEPT
                            !.text = <<"The movie list is empty, no random movie.">>]]}
        ELSE {[s |-> [s1 EXCEPT !.recommended_movie_indices = @ \cup {selected_index}],
               title |-> <<all_movies[selected_index + 1].title>>,
               poster_url |-> all_movies[selected_index + 1].poster_url,
               remaining_count |-> Cardinality(available_indices) - 1,
               obs |-> [calls |-> <<"random_movie_recommendation">>, weather_desc |-> None,
                        path |-> "random", candidates |-> available_indices,
                        picked |-> {selected_index}, available |-> available_indices,
                        reset |-> reset,
                        text |-> <<all_movies[selected_index + 1].title>>]] :
                 selected_index \in available_indices}

\* ------------------------------------------------------- environment
\* What a run finds outside the program.  The image directory, [files, unreadable]:
\* the existing paths and those of them whose read fails.
P(name, ext) == ImagePath(WEATHER_IMAGES_DIR, name, ext)

Element(name, times) == [elementName |-> name, time |-> times]
Location(elements) == <<[weatherElement |-> elements]>>

\* Forecast descriptions: duo-yun, qing, yin-yuRain, duo-yun-shi-yin.
DUO_YUN == <<"duo", "yun">>
QING == <<"qing">>
YIN_YU == <<"yin", "yuRain">>
DUO_YUN_SHI_YIN == <<"duo", "yun", "shiTime", "yin">>

\* A complete payload: three 12-hour periods from 06:00 of day 1 on.
FULL_LOCATION ==
    Location(<<
        Element("Wx", <<Period(Time(30), Time(42), DUO_YUN), Period(Time(42), Time(54), QING),
                        Period(Time(54), Time(66), DUO_YUN_SHI_YIN)>>),
        Element("PoP", <<Period(Time(30), Time(42), <<"20">>), Period(Time(42), Time(54), <<"0">>),
                         Period(Time(54), Time(66), <<"60">>)>>),
        Element("MinT", <<Period(Time(30), Time(42), <<"24">>), Period(Time(42), Time(54), <<"22">>),
                          Period(Time(54), Time(66), <<"23">>)>>),
        Element("MaxT", <<Period(Time(30), Time(42), <<"31">>), Period(Time(42), Time(54), <<"27">>),
                          Period(Time(54), Time(66), <<"29">>)>>)>>)

\* A payload with one malformed Wx start time, no PoP element, a MinT element without
\* periods and a MaxT element whose only period does not cover the forecast.
PARTIAL_LOCATION ==
    Location(<<
        Element("Wx", <<Period(BadTime, Time(42), QING), Period(Time(42), Time(54), YIN_YU)>>),
        Element("MinT", <<>>),
        Element("MaxT", <<Period(Time(54), Time(66), <<"28">>)>>)>>)

RESPONSES ==
    {[kind |-> "RequestException", location |-> <<>>],
     [kind |-> "json", location |-> <<>>],
     [kind |-> "json", location |-> Location(<<Element("PoP", <<>>)>>)],
     [kind |-> "json",
      location |-> Location(<<Element("Wx", <<Period(BadTime, BadTime, QING)>>)>>)],
     [kind |-> "json",
      location |-> Location(<<Element("Wx", <<Period(Time(30), Time(42), None)>>)>>)],
     [kind |-> "json", location |-> FULL_LOCATION],
     [kind |-> "json", location |-> PARTIAL_LOCATION]}

\* datetime.datetime.now(), in hours.
NOWS == {33, 47, 70}

\* The answers to the GET of get_location_names.
LOCATION_RESPONSES == {"ok", "RequestException", "no records", "malformed"}

\* The state of YT_weather_matched.xlsx, of the movie directory, of weather_codes.csv.
EXCEL_STATES == {"ok", "missing"}
MOVIE_DIR_STATES == {"ok", "missing", "empty"}
CSV_STATES == {"ok", "missing"}

FS_EMPTY == [files |-> {}, unreadable |-> {}]
FS_DEFAULT_ONLY == [files |-> {P("default", "png")}, unreadable |-> {}]
FS_DEFAULT_UNREADABLE == [files |-> {P("default", "png")}, unreadable |-> {P("default", "png")}]
FS_CODES ==
    [files |-> {P("01", "gif"), P("01", "jpg"), P("02", "png"), P("default", "jpeg")},
     unreadable |-> {}]
FS_CODE_UNREADABLE ==
    [files |-> {P("02", "jpeg"), P("03", "jpg"), P("default", "gif"), P("default", "jpg")},
     unreadable |-> {P("02", "jpeg"), P("03", "jpg")}]
FS_NO_DEFAULT == [files |-> {P("01", "png"), P("03", "png")}, unreadable |-> {}]

FILE_SYSTEMS ==
    {FS_EMPTY, FS_DEFAULT_ONLY, FS_DEFAULT_UNREADABLE, FS_CODES, FS_CODE_UNREADABLE,
     FS_NO_DEFAULT}

\* A run in which everything outside the program works.
FAIR_WEATHER ==
    [api_key |-> TRUE, background |-> TRUE, locations |-> "ok", excel |-> "ok",
     movie_dir |-> "ok", csv |-> "ok",
     response |-> [kind |-> "json", location |-> FULL_LOCATION], now |-> 33, fs |-> FS_CODES]

\* A run in which the weather request fails and the Excel file, the movie directory
\* and the default image cannot be read.
FOUL_WEATHER ==
    [FAIR_WEATHER EXCEPT !.response = [kind |-> "RequestException", location |-> <<>>],
                         !.excel = "missing", !.movie_dir = "missing",
                         !.fs = FS_DEFAULT_UNREADABLE]

\* The worlds the runs of a session meet: the working one, the failing one, and one
\* without the API_KEY secret.
SESSION_ENVS == {FAIR_WEATHER, FOUL_WEATHER, [FAIR_WEATHER EXCEPT !.api_key = FALSE]}

\* Three times of day of a working world, and one world per kind of failure.
ENVS ==
    {FAIR_WEATHER,
     [FAIR_WEATHER EXCEPT !.now = 47, !.fs = FS_CODE_UNREADABLE],
     [FAIR_WEATHER EXCEPT !.now = 70, !.fs = FS_NO_DEFAULT, !.locations = "no records"],
     [FAIR_WEATHER EXCEPT !.response = [kind |-> "json", location |-> PARTIAL_LOCATION],
                          !.csv = "missing", !.locations = "RequestException",
                          !.movie_dir = "empty"],
     FOUL_WEATHER,
     [FAIR_WEATHER EXCEPT !.api_key = FALSE],
     [FAIR_WEATHER EXCEPT !.background = FALSE],
     [FAIR_WEATHER EXCEPT !.locations = "malformed"]}

\* Every world in which the run reaches the buttons and the catalogues load.
QUERY_ENVS ==
    {[FAIR_WEATHER EXCEPT !.csv = c, !.response = r, !.now = n, !.fs = f] :
        c \in CSV_STATES, r \in RESPONSES, n \in NOWS, f \in FILE_SYSTEMS}

\* ------------------------------------------------------- process_query
HasKey(table, key) == \E i \in DOMAIN table : table[i][1] = key
Lookup(table, key) == table[SetMin({i \in DOMAIN table : table[i][1] = key})][2]

\* Lines 455-460: the correction table first, then the literal name.
matched_city_of(city_input, location_names) ==
    IF HasKey(MANUAL_CORRECTIONS, city_input) THEN Lookup(MANUAL_CORRECTIONS, city_input)
    ELSE IF city_input \in Range(location_names) THEN city_input
    ELSE None

\* Lines 470-484: the code of the description, "" standing for None: the exact entry,
\* else the first entry of the highest fuzz.ratio.
weather_code_of(weather_desc, loaded_weather_codes) ==
    IF HasKey(loaded_weather_codes, weather_desc)
    THEN Lookup(loaded_weather_codes, weather_desc)
    ELSE IF loaded_weather_codes = <<>> THEN ""
    ELSE With([i \in DOMAIN loaded_weather_codes |->
                  fuzz_ratio(lower(weather_desc), lower(loaded_weather_codes[i][1]))],
              LAMBDA score :
                  loaded_weather_codes[
                      SetMin({i \in DOMAIN score : \A j \in DOMAIN score : score[i] >= score[j]})][2])

NoWeather ==
    [status |-> "none", description |-> None, display_text |-> None,
     min_temp |-> None, max_temp |-> None, pop |-> None]

NoCall == [NoDraw("") EXCEPT !.calls = <<>>]

\* What a handler did, for the properties: the name passed to get_weather_data, its
\* result, the code table, the code and the image directory of the image step, the
\* path found, and the draw of the recommendation.
NoObs ==
    [matched_city |-> None, weather |-> NoWeather, loaded_weather_codes |-> <<>>,
     weather_code |-> "", fs |-> [files |-> {}, unreadable |-> {}],
     found_image_path |-> None, draw |-> NoCall]

Outcome(s, raised, obs) == [s |-> s, raised |-> raised, obs |-> obs]

\* Line 504 with = in the place of +=.
result_text_music_only(result_text, music_text) == music_text

\* Line 504: st.session_state.result_text += f"\n\n{music_text}"
result_text_with_music(result_text, music_text) == result_text \o <<"\n\n">> \o music_text

\* Lines 465-505: a successful forecast; one outcome per draw of random.choice.
QuerySuccess(s, matched_city, weather, all_videos, recommend_music, loaded_weather_codes, fs) ==
    With(weather_code_of(weather.description, loaded_weather_codes), LAMBDA weather_code :
    With(get_image_path_or_default(fs.files, WEATHER_IMAGES_DIR, weather_code),
         LAMBDA found_image_path :
    With(IF weather_code = ""
         THEN [s EXCEPT !.result_text = weather.display_text,
                        !.recommended_weather_image_html = None,
                        !.weather_image_caption_desc =
                            <<"Weather: ">> \o weather.description
                            \o <<" (no matching code or image available)">>]
         ELSE IF found_image_path # None
         THEN [s EXCEPT !.result_text = weather.display_text,
                        !.recommended_weather_image_html =
                            load_local_image_as_base64(fs.files, fs.unreadable, found_image_path),
                        !.weather_image_caption_desc = weather.description]
         ELSE [s EXCEPT !.result_text = weather.display_text,
                        !.recommended_weather_image_html = None,
                        !.weather_image_caption_desc =
                            <<"Weather: ">> \o weather.description \o <<" (no image available)">>],
         LAMBDA s1 :
    LET obs(draw) ==
            [matched_city |-> matched_city, weather |-> weather,
             loaded_weather_codes |-> loaded_weather_codes, weather_code |-> weather_code,
             fs |-> fs,
             found_image_path |-> IF weather_code = "" THEN None ELSE found_image_path,
             draw |-> [draw EXCEPT !.calls = <<"get_weather_data">> \o @]]
    IN  IF recommend_music
        THEN {Outcome([m.s EXCEPT !.result_text = result_text_with_music(@, m.text),
                                  !.recommended_youtube_id = m.youtube_id],
                      "", obs(m.obs)) :
                 m \in find_and_recommend_music(s1, weather.description, all_videos)}
        ELSE {Outcome(s1, "", obs(NoCall))})))
\* Lines 506-515: get_weather_data returned no success.
QueryFailure(s, matched_city, weather, fs) ==
    With(get_image_path_or_default(fs.files, WEATHER_IMAGES_DIR, "default"),
         LAMBDA default_image_path :
    LET s1 == [s EXCEPT !.result_text = weather.display_text]
    IN  Outcome(IF default_image_path # None
                THEN [s1 EXCEPT !.recommended_weather_image_html =
                                    load_local_image_as_base64(fs.files, fs.unreadable,
                                                               default_image_path),
                                !.weather_image_caption_desc =
                                    <<"Cannot get the weather of ">> \o matched_city]
                ELSE [s1 EXCEPT !.recommended_weather_image_html = None,
                                !.weather_image_caption_desc =
                                    <<"Cannot get the weather of ">> \o matched_city
                                    \o <<" (no image available)">>],
                "",
                [NoObs EXCEPT !.matched_city = matched_city, !.weather = weather,
                              !.weather_code = "default", !.fs = fs,
                              !.found_image_path = default_image_path,
                              !.draw.calls = <<"get_weather_data">>]))

\* process_query: one outcome per draw of random.choice.  The world the call meets is
\* response (the weather API's answer), now (the time of day) and fs (the image
\* directory); movie_poster_urls is passed and never read.
process_query(s0, api_key, city_input, location_names, all_videos, movie_poster_urls, recommend_music, loaded_weather_codes, response, now, fs) ==
    With(reset_recommendation_states(s0), LAMBDA s :
    With(matched_city_of(city_input, location_names), LAMBDA matched_city :
        IF city_input = <<>>
        THEN {Outcome([s EXCEPT !.result_text = <<"Please enter a county name or a weather keyword!">>],
                      "", NoObs)}
        ELSE IF Truthy(matched_city)
        THEN With(get_weather_data(api_key, matched_city, response, now), LAMBDA w :
             IF w.raised # ""
             THEN {Outcome(s, w.raised,
                           [NoObs EXCEPT !.matched_city = matched_city,
                                         !.draw.calls = <<"get_weather_data">>])}
             ELSE IF w.value.status = "success"
             THEN QuerySuccess(s, matched_city, w.value, all_videos, recommend_music,
                               loaded_weather_codes, fs)
             ELSE {QueryFailure(s, matched_city, w.value, fs)})
        ELSE {Outcome([m.s EXCEPT !.result_text = m.text,
                                  !.recommended_youtube_id = m.youtube_id,
                                  !.recommended_weather_image_html = None,
                                  !.weather_image_caption_desc = None],
                      "", [NoObs EXCEPT !.draw = m.obs]) :
                 m \in random_music_recommendation(s, all_videos)}))

\* ---------------------------------------------------------------- main
\* The world a run meets, env: whether the API_KEY secret exists and background.jpg
\* exists, the answer to the GET of get_location_names, the state of the Excel file,
\* of the movie directory and of weather_codes.csv, and the world of process_query.
\* Lines 562-589: the handler of the pressed button ("" when no button was pressed).
Buttons(s, button, city_input, location_names, env) ==
    CASE button \in {"query_weather", "query_music"} ->
             process_query(s, env.api_key, city_input, location_names,
                           initialize_videos(env.excel), get_movie_poster_urls(env.movie_dir),
                           button = "query_music", load_weather_codes(env.csv),
                           env.response, env.now, env.fs)
      [] button = "random_music" ->
             {Outcome([m.s EXCEPT !.result_text = m.text,
                                  !.recommended_youtube_id = m.youtube_id],
                      "", [NoObs EXCEPT !.draw = m.obs]) :
                 m \in random_music_recommendation(reset_recommendation_states(s),
                                                   initialize_videos(env.excel))}
      [] button = "random_movie" ->
             {Outcome(IF Truthy(m.poster_url)
                      THEN [m.s EXCEPT !.result_text =
                                           <<"A movie for you: **">> \o m.title \o <<"**">>,
                                       !.recommended_image_url = m.poster_url]
                      ELSE [m.s EXCEPT !.result_text = m.title],
                      "", [NoObs EXCEPT !.draw = m.obs]) :
                 m \in random_movie_recommendation(reset_recommendation_states(s),
                                                   get_movie_poster_urls(env.movie_dir))}
      [] OTHER -> {Outcome(s, "", NoObs)}

\* main(), lines 12-15 and 527-589: API_KEY is bound only if the secret exists;
\* set_background opens background.jpg outside any try; get_location_names may raise;
\* an exception ends the run before the buttons are reached.
main(s, button, city_input, env) ==
    IF ~env.background THEN {Outcome(s, "FileNotFoundError", NoObs)}
    ELSE With(get_location_names(env.api_key, env.locations), LAMBDA location_names :
             IF location_names.raised # ""
             THEN {Outcome(s, location_names.raised, NoObs)}
             ELSE Buttons(s, button, city_input, location_names.value, env))

\* Lines 618-622: the text of the st.info box the run ends with.
ShownInfo(s) ==
    IF s.result_text # <<>> THEN s.result_text ELSE <<"Try the functions on the left!">>

\* Lines 605-613: whether the run shows a weather image.
ShowsWeatherImage(s) == Truthy(s.recommended_weather_image_html)

\* ------------------------------------------------------ state machine
\* session_state: st.session_state.  last: the latest run, [button, city_input,
\* raised, obs]: the button pressed, the text in the input box, the uncaught exception
\* that ended the run ("" for none) and what its handler did.  call: a single call of
\* a function on an argument, [fn, arg, shape, video, result, first, done], in the
\* specifications that apply one function to each of its inputs; first is the result
\* of the earlier call when the function is applied to its own result.
VARIABLES session_state, last, call

vars == <<session_state, last, call>>

NoPendingCall ==
    [fn |-> "", arg |-> <<>>, shape |-> "", video |-> <<>>, result |-> None,
     first |-> None, done |-> TRUE]

\* The texts typed into the input box: nothing, tai-bei (a key of the table),
\* TAI-bei-shi (an official name), and the weather keyword qing.
CITY_INPUTS ==
    {<<>>, <<"tai", "bei">>, <<"TAI", "bei", "shi">>, QING}

Init ==
    /\ session_state = InitialSessionState
    /\ last = [button |-> "", city_input |-> <<>>, raised |-> "", obs |-> NoObs]
    /\ call = NoPendingCall

\* One run of the script with the given button pressed.
Run(button, city_input, env) ==
    \E o \in main(session_state, button, city_input, env) :
        /\ session_state' = o.s
        /\ last' = [button |-> button, city_input |-> city_input, raised |-> o.raised,
                    obs |-> o.obs]

PageLoad == \E env \in SESSION_ENVS : Run("", <<>>, env) /\ UNCHANGED call

QueryWeather ==
    \E city_input \in CITY_INPUTS, env \in SESSION_ENVS :
        Run("query_weather", city_input, env) /\ UNCHANGED call

QueryMusic ==
    \E city_input \in CITY_INPUTS, env \in SESSION_ENVS :
        Run("query_music", city_input, env) /\ UNCHANGED call

RandomMusic == \E env \in SESSION_ENVS : Run("random_music", <<>>, env) /\ UNCHANGED call

RandomMovie == \E env \in SESSION_ENVS : Run("random_movie", <<>>, env) /\ UNCHANGED call

Next == PageLoad \/ QueryWeather \/ QueryMusic \/ RandomMusic \/ RandomMovie

Spec == Init /\ [][Next]_vars

\* ---- process_query on every key of the correction table and every official name
CorrectionKeys == {MANUAL_CORRECTIONS[i][1] : i \in DOMAIN MANUAL_CORRECTIONS}

InitCorrections ==
    /\ session_state = InitialSessionState
    /\ last = [button |-> "", city_input |-> <<>>, raised |-> "", obs |-> NoObs]
    /\ \E city_input \in CorrectionKeys \cup Range(OFFICIAL_LOCATION_NAMES) :
           call = [fn |-> "process_query", arg |-> city_input, shape |-> "", video |-> <<>>,
                   result |-> None, first |-> None, done |-> FALSE]

QueryCity ==
    /\ ~call.done
    /\ \E env \in ENVS : Run("query_weather", call.arg, env)
    /\ call' = [call EXCEPT !.done = TRUE]

NextCorrections == QueryCity

SpecCorrections == InitCorrections /\ [][NextCorrections]_vars

\* ---- some random music in the working world, then one run in any world
InitWorlds ==
    /\ session_state = InitialSessionState
    /\ last = [button |-> "", city_input |-> <<>>, raised |-> "", obs |-> NoObs]
    /\ call = [fn |-> "main", arg |-> <<"tai", "bei">>, shape |-> "", video |-> <<>>,
               result |-> None, first |-> None, done |-> FALSE]

Listen ==
    /\ ~call.done
    /\ Run("random_music", <<>>, FAIR_WEATHER)
    /\ UNCHANGED call

RunOnce ==
    /\ ~call.done
    /\ \E button \in {"", "query_weather", "query_music", "random_music", "random_movie"},
          env \in QUERY_ENVS \cup ENVS :
           Run(button, call.arg, env)
    /\ call' = [call EXCEPT !.done = TRUE]

NextWorlds == Listen \/ RunOnce

SpecWorlds == InitWorlds /\ [][NextWorlds]_vars

\* ---- extract_youtube_id on every shape of URL of every video
EXTRACT_SHAPES == Range(URL_SHAPES)

InitExtract ==
    /\ session_state = InitialSessionState
    /\ last = [button |-> "", city_input |-> <<>>, raised |-> "", obs |-> NoObs]
    /\ \E shape \in EXTRACT_SHAPES, i \in DOMAIN VIDEO_IDS :
           call = [fn |-> "extract_youtube_id", arg |-> UrlOf(shape, VIDEO_IDS[i]),
                   shape |-> shape, video |-> VIDEO_IDS[i], result |-> None,
                   first |-> None, done |-> FALSE]

\* The call returns.
Extract ==
    /\ ~call.done
    /\ call' = [call EXCEPT !.result = extract_youtube_id(call.arg), !.done = TRUE]
    /\ UNCHANGED <<session_state, last>>

\* The identifier a URL gave is passed to the function again: as it is ("id"), or in
\* a URL of some shape rebuilt from it.
ExtractAgain ==
    /\ call.done /\ call.result # None /\ call.first = None
    /\ \E again \in {"id"} \cup EXTRACT_SHAPES :
           call' = [call EXCEPT !.arg = UrlOf(again, call.result), !.shape = again,
                                !.first = call.result, !.result = None, !.done = FALSE]
    /\ UNCHANGED <<session_state, last>>

NextExtract == Extract \/ ExtractAgain

SpecExtract == InitExtract /\ [][NextExtract]_vars

\* ---- get_weather_data on every payload and every time of day
\* An element of the payload as [present, time]: whether weatherElement has it, and
\* its 'time' list.
Absent == [present |-> FALSE, time |-> <<>>]
Present(times) == [present |-> TRUE, time |-> times]

\* The Wx element: absent; without entries; with malformed start times only; with a
\* malformed entry before a valid one; three periods in order; two periods, the
\* later one first.
WX_ELEMENTS ==
    {Absent,
     Present(<<>>),
     Present(<<Period(BadTime, BadTime, QING)>>),
     Present(<<Period(BadTime, Time(42), QING), Period(Time(42), Time(54), YIN_YU)>>),
     Present(<<Period(Time(30), Time(42), DUO_YUN), Period(Time(42), Time(54), QING),
               Period(Time(54), Time(66), DUO_YUN_SHI_YIN)>>),
     Present(<<Period(Time(54), Time(66), DUO_YUN_SHI_YIN),
               Period(Time(30), Time(42), DUO_YUN)>>)}

\* A PoP, MinT or MaxT element: absent; without periods; three periods in order; one
\* late period; a period with a malformed start time after a good one.
VALUE_ELEMENTS ==
    {Absent,
     Present(<<>>),
     Present(<<Period(Time(30), Time(42), <<"20">>), Period(Time(42), Time(54), <<"0">>),
               Period(Time(54), Time(66), <<"60">>)>>),
     Present(<<Period(Time(54), Time(66), <<"60">>)>>),
     Present(<<Period(Time(30), Time(42), <<"20">>), Period(BadTime, Time(54), <<"0">>)>>)}

\* datetime.datetime.now(), in hours: NOWS, and a time halfway between two starts.
WEATHER_NOWS == NOWS \cup {36}

\* data['records']['location'][0] with the elements that are present.
LocationOf(wx, pop, min_t, max_t) ==
    Location((IF wx.present THEN <<Element("Wx", wx.time)>> ELSE <<>>)
             \o (IF pop.present THEN <<Element("PoP", pop.time)>> ELSE <<>>)
             \o (IF min_t.present THEN <<Element("MinT", min_t.time)>> ELSE <<>>)
             \o (IF max_t.present THEN <<Element("MaxT", max_t.time)>> ELSE <<>>))

\* The answers to the GET of get_weather_data.
WEATHER_RESPONSES ==
    {[kind |-> "RequestException", location |-> <<>>], [kind |-> "json", location |-> <<>>]}
    \cup {[kind |-> "json", location |-> LocationOf(wx, pop, min_t, max_t)] :
             wx \in WX_ELEMENTS, pop \in VALUE_ELEMENTS, min_t \in VALUE_ELEMENTS,
             max_t \in VALUE_ELEMENTS}

InitWeather ==
    /\ session_state = InitialSessionState
    /\ last = [button |-> "", city_input |-> <<>>, raised |-> "", obs |-> NoObs]
    /\ \E response \in WEATHER_RESPONSES, now \in WEATHER_NOWS :
           call = [fn |-> "get_weather_data", arg |-> <<"TAI", "bei", "shi">>, shape |-> "",
                   video |-> <<>>, result |-> None, first |-> None, done |-> FALSE,
                   response |-> response, now |-> now]

\* The call returns.
Fetch ==
    /\ ~call.done
    /\ call' = [call EXCEPT
                   !.result = get_weather_data(TRUE, call.arg, call.response, call.now).value,
                   !.done = TRUE]
    /\ UNCHANGED <<session_state, last>>

NextWeather == Fetch

SpecWeather == InitWeather /\ [][NextWeather]_vars

\* ---- music recommendations in a row, from an empty pool
\* The worlds of a round: the working one at each time of day, and the one with the
\* partial payload.
ROUND_ENVS ==
    {[FAIR_WEATHER EXCEPT !.now = now] : now \in NOWS}
    \cup {[FAIR_WEATHER EXCEPT !.response = [kind |-> "json", location |-> PARTIAL_LOCATION]]}

\* call.issued, call.resets and call.paths: for each recommendation since the start,
\* the indices picked, whether the pool was reset, and the path that drew.
InitRounds ==
    /\ session_state = InitialSessionState
    /\ last = [button |-> "", city_input |-> <<>>, raised |-> "", obs |-> NoObs]
    /\ call = [fn |-> "music", arg |-> <<"tai", "bei">>, shape |-> "", video |-> <<>>,
               result |-> None, first |-> None, done |-> FALSE,
               issued |-> <<>>, resets |-> <<>>, paths |-> <<>>]

\* The latest run's recommendation, added to the record of the round.
Recorded ==
    call' = [call EXCEPT !.issued = @ \o <<last'.obs.draw.picked>>,
                         !.resets = @ \o <<last'.obs.draw.reset>>,
                         !.paths = @ \o <<last'.obs.draw.path>>]

\* A request goes up to one past the size of the catalogue.
RoundOpen == Len(call.issued) <= Len(initialize_videos("ok"))

\* The weather button: find_and_recommend_music on the forecast's description.
RecommendForWeather ==
    /\ RoundOpen
    /\ \E env \in ROUND_ENVS : Run("query_music", call.arg, env)
    /\ Recorded

\* The random button: random_music_recommendation.
RecommendAtRandom ==
    /\ RoundOpen
    /\ Run("random_music", <<>>, FAIR_WEATHER)
    /\ Recorded

NextRounds == RecommendForWeather \/ RecommendAtRandom

SpecRounds == InitRounds /\ [][NextRounds]_vars

\* ---------------------------------------------------------- properties
\* The catalogues of a world in which the files load.
MusicIndices == {initialize_videos("ok")[i].index : i \in DOMAIN initialize_videos("ok")}
MovieIndices == 0..(Len(get_movie_poster_urls("ok")) - 1)

\* C1: in every run that picks an item, for the music pool and for the movie pool:
\* while a not-yet-issued item remains, the item picked is not in the pool, is drawn
\* from the not-yet-issued items and is added to the pool; when none remains, the
\* pool is cleared, the pick is drawn from the whole catalogue and the pool is then
\* that pick alone.
C1_NoRepeatUntilExhausted ==
    [][\A i \in last'.obs.draw.picked :
          LET movie == last'.button = "random_movie"
              catalogue == IF movie THEN MovieIndices ELSE MusicIndices
              pool == IF movie THEN session_state.recommended_movie_indices
                      ELSE session_state.recommended_music_original_indices
              pool_after == IF movie THEN session_state'.recommended_movie_indices
                            ELSE session_state'.recommended_music_original_indices
          IN  IF catalogue \ pool # {}
              THEN /\ i \notin pool
                   /\ last'.obs.draw.available = catalogue \ pool
                   /\ ~last'.obs.draw.reset
                   /\ pool_after = pool \cup {i}
              ELSE /\ last'.obs.draw.reset
                   /\ last'.obs.draw.available = catalogue
                   /\ pool_after = {i}]_vars

\* Both pools were exhausted and reset: the music pick of a weather query is drawn
\* after the reset of the music pool, the movie pool having been refilled before.
C1_Witness ==
    /\ last.button = "query_music"
    /\ last.obs.draw.reset
    /\ last.obs.draw.picked # {}
    /\ session_state.recommended_music_original_indices = last.obs.draw.picked
    /\ session_state.recommended_movie_indices = MovieIndices

\* The videos find_and_recommend_music could choose among in the latest run.
AvailableVideos ==
    {initialize_videos("ok")[k] : k \in {j \in DOMAIN initialize_videos("ok") :
        initialize_videos("ok")[j].index \in last.obs.draw.available}}

\* C2: when find_and_recommend_music ran and some not-yet-issued video scores at least
\* 30 against the weather description, the list given to random.choice is exactly
\* the not-yet-issued videos of the highest score, and the video picked is one of them.
C2_PickAmongTopScores ==
    ("find_and_recommend_music" \in Range(last.obs.draw.calls)
        /\ \E v \in AvailableVideos : VideoScore(last.obs.draw.weather_desc, v) >= 30)
    => /\ last.obs.draw.path = "match"
       /\ last.obs.draw.candidates =
              {v.index : v \in {u \in AvailableVideos :
                  \A w \in AvailableVideos :
                      VideoScore(last.obs.draw.weather_desc, u)
                          >= VideoScore(last.obs.draw.weather_desc, w)}}
       /\ last.obs.draw.picked \subseteq last.obs.draw.candidates
       /\ Cardinality(last.obs.draw.picked) = 1

\* Two videos tie at the top, a third one scores lower, and the pick is the second of
\* the tied ones.
C2_Witness ==
    /\ last.obs.draw.path = "match"
    /\ Cardinality(last.obs.draw.candidates) = 2
    /\ last.obs.draw.available \ last.obs.draw.candidates # {}
    /\ last.obs.draw.picked = {SetMax(last.obs.draw.candidates)}

\* C3: for every key of MANUAL_CORRECTIONS typed as city_input, the name passed to
\* get_weather_data is the table's value for the key, and that value is one of the 22
\* official names.
C3_CorrectionIsOfficialName ==
    (call.done /\ HasKey(MANUAL_CORRECTIONS, call.arg) /\ last.obs.draw.calls # <<>>)
    => /\ last.obs.matched_city = Lookup(MANUAL_CORRECTIONS, call.arg)
       /\ last.obs.matched_city \in Range(OFFICIAL_LOCATION_NAMES)

\* C4: for every supported shape of URL of a video, extract_youtube_id returns the
\* video's identifier, of exactly 11 characters; applied to the identifier it returned,
\* or to a URL rebuilt from that identifier, it returns that identifier again.
C4_SameIdAndIdempotent ==
    call.done
    => IF call.first = None
       THEN call.result = call.video /\ Len(call.result) = 11
       ELSE call.result = call.first

\* C5: whatever fails, no run ends with an uncaught exception, and every run ends with
\* a non-empty message or with the weather image.
C5_NoFailureIsFatal ==
    /\ last.raised = ""
    /\ (ShownInfo(session_state) # <<>> \/ ShowsWeatherImage(session_state))

\* C6: when the input of a query is a free-text keyword (not empty, no key of
\* MANUAL_CORRECTIONS, no official name) and some not-yet-issued video scores at least
\* 30 against it, the video picked is one whose score against the input is the highest
\* among the not-yet-issued videos.
C6_KeywordIsFuzzyMatched ==
    (/\ last.button \in {"query_weather", "query_music"}
     /\ last.raised = ""
     /\ last.city_input # <<>>
     /\ ~HasKey(MANUAL_CORRECTIONS, last.city_input)
     /\ last.city_input \notin Range(OFFICIAL_LOCATION_NAMES)
     /\ \E v \in AvailableVideos : VideoScore(last.city_input, v) >= 30)
    => /\ last.obs.draw.picked # {}
       /\ \A u \in AvailableVideos :
              u.index \in last.obs.draw.picked
              => \A w \in AvailableVideos :
                     VideoScore(last.city_input, u) >= VideoScore(last.city_input, w)

\* C7: with a matched city, find_and_recommend_music is called only after
\* get_weather_data, only when that returned status "success", and with the
\* description of that forecast; a music query with a successful forecast does call
\* it; and the result text is then the weather display text, a blank line and the
\* music text.
C7_FetchThenMatchThenResult ==
    /\ "find_and_recommend_music" \in Range(last.obs.draw.calls)
       => /\ Truthy(last.obs.matched_city)
          /\ last.obs.draw.calls[1] = "get_weather_data"
          /\ last.obs.draw.calls[2] = "find_and_recommend_music"
          /\ last.obs.weather.status = "success"
          /\ last.obs.draw.weather_desc = last.obs.weather.description
          /\ session_state.result_text =
                 last.obs.weather.display_text \o <<"\n\n">> \o last.obs.draw.text
    /\ (/\ Truthy(last.obs.matched_city)
        /\ last.button = "query_music"
        /\ last.obs.weather.status = "success")
       => "find_and_recommend_music" \in Range(last.obs.draw.calls)

\* A music query for a matched city whose forecast matched a video.
C7_Witness ==
    /\ last.button = "query_music"
    /\ last.obs.weather.status = "success"
    /\ last.obs.draw.path = "match"
    /\ Truthy(session_state.recommended_youtube_id)

\* The image path the contract of get_image_path_or_default names in directory files:
\* the code's file under the first of png, gif, jpg, jpeg that exists, else the default
\* file under the first that exists, else None.
ExpectedImagePath(files, code) ==
    LET exts == <<"png", "gif", "jpg", "jpeg">>
        Of(name) == {i \in 1..4 : <<"images", name, exts[i]>> \in files}
        First(name) == CHOOSE i \in Of(name) : \A j \in Of(name) : i <= j
    IN  IF Of(code) # {} THEN <<"images", code, exts[First(code)]>>
        ELSE IF Of("default") # {} THEN <<"images", "default", exts[First("default")]>>
        ELSE None

\* The captions of lines 495 and 498.
NoImageCaptions(weather_desc) ==
    {<<"Weather: ">> \o weather_desc \o <<" (no image available)">>,
     <<"Weather: ">> \o weather_desc \o <<" (no matching code or image available)">>}

\* A successful forecast whose description has no exact entry in the code table.
NoExactCode ==
    /\ last.obs.weather.status = "success"
    /\ ~HasKey(last.obs.loaded_weather_codes, last.obs.weather.description)

\* C8 as stated: the path get_image_path_or_default returned is the one its contract
\* names, and a successful query whose description has no exact code ends with an
\* image or with a caption saying that no image is available.
C8_ImageOrNoImageCaption ==
    /\ last.obs.weather_code # ""
       => last.obs.found_image_path
              = ExpectedImagePath(last.obs.fs.files, last.obs.weather_code)
    /\ NoExactCode
       => \/ session_state.recommended_weather_image_html # None
          \/ session_state.weather_image_caption_desc
                 \in NoImageCaptions(last.obs.weather.description)

\* C8, amended: the path get_image_path_or_default returned is the one its contract
\* names, and a successful query whose description has no exact code ends with an
\* image, or with a caption saying that no image is available, or, when the file found
\* cannot be read, with no image and the bare description as caption.
C8_ImageCaptionOrUnreadable ==
    /\ last.obs.weather_code # ""
       => last.obs.found_image_path
              = ExpectedImagePath(last.obs.fs.files, last.obs.weather_code)
    /\ NoExactCode
       => \/ /\ session_state.recommended_weather_image_html # None
             /\ last.obs.found_image_path \notin last.obs.fs.unreadable
          \/ /\ session_state.recommended_weather_image_html = None
             /\ last.obs.found_image_path = None
             /\ session_state.weather_image_caption_desc
                    \in NoImageCaptions(last.obs.weather.description)
          \/ /\ session_state.recommended_weather_image_html = None
             /\ last.obs.found_image_path \in last.obs.fs.unreadable
             /\ session_state.weather_image_caption_desc = last.obs.weather.description

\* A description without an exact code, matched to a code by fuzz.ratio, whose image
\* file exists and cannot be read.
C8_Witness ==
    /\ NoExactCode
    /\ last.obs.weather_code # ""
    /\ last.obs.found_image_path \in last.obs.fs.unreadable
    /\ session_state.recommended_weather_image_html = None

\* The run queried a matched city and get_weather_data returned no success.
WeatherFailed(l) == Truthy(l.obs.matched_city) /\ l.obs.weather.status = "error"

DefaultExists(l) ==
    \E ext \in {"png", "gif", "jpg", "jpeg"} : <<"images", "default", ext>> \in l.obs.fs.files

\* What C9 and its amendment share: the result text is the error's display text, not
\* empty; no video is recommended and nothing is drawn; the music pool is unchanged.
FailureLeavesNoRecommendation ==
    /\ session_state'.result_text = last'.obs.weather.display_text
    /\ session_state'.result_text # <<>>
    /\ session_state'.recommended_youtube_id = None
    /\ last'.obs.draw.picked = {}
    /\ session_state'.recommended_music_original_indices
           = session_state.recommended_music_original_indices

\* C9 as stated: after a failed weather query the result text is the error's display
\* text, no video is recommended, the music pool is unchanged, and the default image
\* is stored if it exists, otherwise the caption says that no image is available.
C9_FailureShowsDefaultImage ==
    [][WeatherFailed(last')
       => /\ FailureLeavesNoRecommendation
          /\ IF DefaultExists(last')
             THEN session_state'.recommended_weather_image_html # None
             ELSE /\ session_state'.recommended_weather_image_html = None
                  /\ session_state'.weather_image_caption_desc =
                         <<"Cannot get the weather of ">> \o last'.obs.matched_city
                         \o <<" (no image available)">>]_vars

\* C9, amended: as C9, the default image being stored if it exists and can be read;
\* if it exists and cannot be read, no image is stored and the caption names the
\* failure without saying that no image is available.
C9_FailureShowsReadableDefaultImage ==
    [][WeatherFailed(last')
       => /\ FailureLeavesNoRecommendation
          /\ IF DefaultExists(last')
             THEN IF ExpectedImagePath(last'.obs.fs.files, "default")
                         \in last'.obs.fs.unreadable
                  THEN /\ session_state'.recommended_weather_image_html = None
                       /\ session_state'.weather_image_caption_desc =
                              <<"Cannot get the weather of ">> \o last'.obs.matched_city
                  ELSE /\ session_state'.recommended_weather_image_html # None
                       /\ session_state'.weather_image_caption_desc =
                              <<"Cannot get the weather of ">> \o last'.obs.matched_city
             ELSE /\ session_state'.recommended_weather_image_html = None
                  /\ session_state'.weather_image_caption_desc =
                         <<"Cannot get the weather of ">> \o last'.obs.matched_city
                         \o <<" (no image available)">>]_vars

\* A music query failed while videos had been issued, and the default image is shown.
C9_Witness ==
    /\ WeatherFailed(last)
    /\ last.button = "query_music"
    /\ session_state.recommended_music_original_indices # {}
    /\ DefaultExists(last)
    /\ session_state.recommended_weather_image_html # None

\* C10: reset_recommendation_states clears the five result fields and keeps the two
\* pools; every handler that ran to its end left no result of an earlier run; and a
\* pool loses an item only when it held the whole catalogue and was reset, after
\* which it holds the new pick alone.
C10_ResetKeepsPools ==
    /\ [](LET r == reset_recommendation_states(session_state)
          IN  /\ r.result_text = <<>>
              /\ r.recommended_youtube_id = None
              /\ r.recommended_image_url = None
              /\ r.recommended_weather_image_html = None
              /\ r.weather_image_caption_desc = None
              /\ r.recommended_music_original_indices
                     = session_state.recommended_music_original_indices
              /\ r.recommended_movie_indices = session_state.recommended_movie_indices)
    /\ [][/\ (last'.button \in {"random_music", "random_movie"} /\ last'.raised = "")
             => /\ session_state'.recommended_weather_image_html = None
                /\ session_state'.weather_image_caption_desc = None
          /\ (last'.button = "random_movie" /\ last'.raised = "")
             => session_state'.recommended_youtube_id = None
          /\ (last'.button # "" /\ last'.button # "random_movie" /\ last'.raised = "")
             => session_state'.recommended_image_url = None
          /\ ~(session_state.recommended_music_original_indices
                  \subseteq session_state'.recommended_music_original_indices)
             => /\ session_state.recommended_music_original_indices = MusicIndices
                /\ last'.obs.draw.reset
                /\ session_state'.recommended_music_original_indices = last'.obs.draw.picked
          /\ ~(session_state.recommended_movie_indices
                  \subseteq session_state'.recommended_movie_indices)
             => /\ session_state.recommended_movie_indices = MovieIndices
                /\ last'.obs.draw.reset
                /\ session_state'.recommended_movie_indices = last'.obs.draw.picked]_vars

\* A weather query after a movie and a song: the poster and the video of the earlier
\* runs are gone, both pools are still there.
C10_Witness ==
    /\ last.button = "query_weather"
    /\ last.obs.weather.status = "success"
    /\ session_state.recommended_image_url = None
    /\ session_state.recommended_youtube_id = None
    /\ session_state.recommended_music_original_indices # {}
    /\ session_state.recommended_movie_indices # {}

\* The indices a music recommendation can draw from when the pool is pool: the
\* not-yet-issued ones, or the whole catalogue when none is left.
Drawable(pool) == IF MusicIndices \ pool # {} THEN MusicIndices \ pool ELSE MusicIndices

\* The video of the catalogue with index i.
VideoAt(i) ==
    initialize_videos("ok")[CHOOSE k \in DOMAIN initialize_videos("ok") :
                                initialize_videos("ok")[k].index = i]

\* C11: in every run that calls find_and_recommend_music on the catalogue: a video
\* chosen by the matching path scores at least 30 against the weather description,
\* and the matching path chooses whenever some drawable video scores at least 30;
\* when no drawable video scores at least 30, random_music_recommendation is called
\* and draws; and in either case exactly one drawable video is picked and the pool
\* becomes the pool (emptied first when nothing was left) plus that one index.
C11_BelowThresholdFallsBack ==
    [][("find_and_recommend_music" \in Range(last'.obs.draw.calls))
       => LET pool == session_state.recommended_music_original_indices
              desc == last'.obs.draw.weather_desc
              some_match == \E i \in Drawable(pool) : VideoScore(desc, VideoAt(i)) >= 30
          IN  /\ last'.obs.draw.path = "match"
                 => \A i \in last'.obs.draw.picked : VideoScore(desc, VideoAt(i)) >= 30
              /\ some_match => last'.obs.draw.path = "match"
              /\ ~some_match
                 => /\ last'.obs.draw.calls
                           = <<"get_weather_data", "find_and_recommend_music",
                               "random_music_recommendation">>
                    /\ last'.obs.draw.path = "random"
                    /\ last'.obs.draw.candidates = Drawable(pool)
              /\ Cardinality(last'.obs.draw.picked) = 1
              /\ last'.obs.draw.picked \subseteq Drawable(pool)
              /\ session_state'.recommended_music_original_indices
                     = (IF MusicIndices \ pool # {} THEN pool ELSE {})
                           \cup last'.obs.draw.picked]_vars

\* No not-yet-issued video reached the threshold: the fallback picked one of them,
\* which scores below 30, and the pool holds it with the one issued before.
C11_Witness ==
    /\ last.obs.draw.calls = <<"get_weather_data", "find_and_recommend_music",
                               "random_music_recommendation">>
    /\ Cardinality(last.obs.draw.picked) = 1
    /\ \A i \in last.obs.draw.picked :
           VideoScore(last.obs.draw.weather_desc, VideoAt(i)) < 30
    /\ Cardinality(session_state.recommended_music_original_indices) = 2
    /\ last.obs.draw.picked \subseteq session_state.recommended_music_original_indices

\* The 'time' list of the payload's element name, as [present, time].
PayloadElement(response, name) ==
    LET elements == response.location[1].weatherElement
        I == {i \in DOMAIN elements : elements[i].elementName = name}
    IN  IF I = {} THEN [present |-> FALSE, time |-> <<>>]
        ELSE [present |-> TRUE, time |-> elements[CHOOSE i \in I : \A j \in I : i <= j].time]

\* The values C12 allows for an element when the forecast starts at start: "N/A" when
\* the element is absent or has no periods; else the value of a period with
\* start <= forecast start < end; else, when there is none, the first period's.
AllowedValues(element, start) ==
    LET covering == {i \in DOMAIN element.time :
                        /\ element.time[i].startTime.valid /\ element.time[i].endTime.valid
                        /\ element.time[i].startTime.t <= start
                        /\ start < element.time[i].endTime.t}
    IN  IF ~element.present \/ element.time = <<>> THEN {<<"N/A">>}
        ELSE IF covering # {} THEN {element.time[i].parameter : i \in covering}
        ELSE {element.time[1].parameter}

\* C12: when get_weather_data has been given a payload with a location: if the Wx
\* element is missing or none of its entries has a valid startTime the status is
\* "error"; and if the status is "success" the description is that of a validly timed
\* Wx entry whose startTime is nearest to now, and PoP (with "%"), MinT and MaxT are
\* each the value of the element's period covering that entry's start, else of its
\* first period, and "N/A" when the element is absent or has no periods.
C12_NearestForecastAndPeriods ==
    (call.fn = "get_weather_data" /\ call.done /\ call.response.location # <<>>)
    => LET wx == PayloadElement(call.response, "Wx")
           valid == {i \in DOMAIN wx.time : wx.time[i].startTime.valid}
           dist(i) == IF wx.time[i].startTime.t >= call.now
                      THEN wx.time[i].startTime.t - call.now
                      ELSE call.now - wx.time[i].startTime.t
       IN  /\ (~wx.present \/ valid = {}) => call.result.status = "error"
           /\ call.result.status = "success"
              => \E f \in valid :
                    /\ \A g \in valid : dist(f) <= dist(g)
                    /\ call.result.description = wx.time[f].parameter
                    /\ \E v \in AllowedValues(PayloadElement(call.response, "PoP"),
                                              wx.time[f].startTime.t) :
                           call.result.pop = (IF v = <<"N/A">> THEN v ELSE v \o <<"%">>)
                    /\ call.result.min_temp
                           \in AllowedValues(PayloadElement(call.response, "MinT"),
                                             wx.time[f].startTime.t)
                    /\ call.result.max_temp
                           \in AllowedValues(PayloadElement(call.response, "MaxT"),
                                             wx.time[f].startTime.t)

\* The forecast is the second Wx entry, the first one being malformed; PoP comes from
\* the covering period, which is not the first; MinT from the first period, none
\* covering; MaxT is absent.
C12_Witness ==
    /\ call.fn = "get_weather_data" /\ call.done
    /\ call.result.status = "success"
    /\ call.result.description = YIN_YU
    /\ call.result.pop = <<"0", "%">>
    /\ call.result.min_temp = <<"60">>
    /\ call.result.max_temp = <<"N/A">>

\* C13: from an empty pool on the catalogue of N videos, whatever the mix of the two
\* recommendation functions: each of the first N requests picks exactly one video
\* without a reset of the pool, those picks are pairwise distinct, the first N picks
\* are the whole catalogue, the reset happens on request N + 1, and the pool is
\* always a subset of the catalogue's indices.
C13_RoundCoversCatalogue ==
    call.fn = "music"
    => LET N == Cardinality(MusicIndices)
           n == Len(call.issued)
           first == 1..(IF n < N THEN n ELSE N)
       IN  /\ session_state.recommended_music_original_indices \subseteq MusicIndices
           /\ \A k \in first :
                 /\ Cardinality(call.issued[k]) = 1
                 /\ call.issued[k] \subseteq MusicIndices
                 /\ ~call.resets[k]
           /\ \A j \in first : \A k \in first : j # k => call.issued[j] # call.issued[k]
           /\ n >= N => UNION {call.issued[k] : k \in first} = MusicIndices
           /\ n > N => call.resets[N + 1] /\ Cardinality(call.issued[N + 1]) = 1

\* A round of N requests that used both functions, and the request after it, which
\* reset the pool.
C13_Witness ==
    /\ call.fn = "music"
    /\ Len(call.issued) = Cardinality(MusicIndices) + 1
    /\ call.resets[Len(call.issued)]
    /\ \E j \in 1..Cardinality(MusicIndices), k \in 1..Cardinality(MusicIndices) :
           call.paths[j] = "match" /\ call.paths[k] = "random"
    /\ Cardinality(session_state.recommended_music_original_indices) = 1

====
